---------------------------- MODULE Spec2Model ----------------------------
(***************************************************************************)
(* OKTE electricity-price integration: the price-window analytics of       *)
(* okte.py, the shared store filled by the coordinator and the services    *)
(* of __init__.py / button.py, and the window-membership detectors of      *)
(* sensors_detectors_today.py / sensors_detectors_tomorrow.py.             *)
(*                                                                         *)
(* Encodings.                                                              *)
(*   Optional values (Python None): None is <<>>, a present value v is     *)
(*   <<v>>.                                                                *)
(*   Prices are integers counted in hundredths of the currency unit, so    *)
(*   that round(x, 2) is rounding to an integer.                           *)
(*   Timestamp strings are integers ordered as the strings are ordered:    *)
(*   a well-formed ISO instant is its UTC tick 0..MaxTick, the empty       *)
(*   string is below all of them and a malformed string above.             *)
(*   An exception that leaves a function is the result [raised |-> TRUE].  *)
(***************************************************************************)
EXTENDS Integers, Sequences, FiniteSets, TLC

VARIABLES
    series,                 \* harness: the list handed to a function of okte.py
    call,                   \* harness: the function applied last and its arguments
    result,                 \* harness: what that call returned
    now,                    \* the local wall clock, in ticks
    data,                   \* hass.data[DOMAIN]["data"]  (<<>>: no data stored)
    cheapest_window,        \* hass.data[DOMAIN]["cheapest_window"]
    most_expensive_window,  \* hass.data[DOMAIN]["most_expensive_window"]
    statistics,             \* hass.data[DOMAIN]["statistics"]
    last_update,            \* hass.data[DOMAIN]["last_update"], by its calendar date
    connection_status,      \* hass.data[DOMAIN]["connection_status"]
    min_window_hours,       \* configured cheapest-window length
    max_window_hours,       \* configured most-expensive-window length
    detector,               \* which of the four detector classes is followed
    det_state,              \* the detector's _state
    added,                  \* async_added_to_hass has run
    pending,                \* events fired on the bus, not yet handled by the detector
    fetch,                  \* the fetch coroutine in flight, if any
    recalc,                 \* the _recalculate_time_windows coroutine in flight, if any
    ops,                    \* setups, manual fetches and option changes so far
    unsub_timer,            \* coordinator._unsub_timer: the daily-fetch timer handle
    unsub_retry_timer,      \* coordinator._unsub_retry_timer: the retry timer handle
    timers,                 \* the event loop: pending call_later timers, per callback
    lifecycle,              \* where the config entry is between setup and unload
    last                    \* what the last recompute of the detector evaluated

fnVars    == <<series, call, result>>
storeVars == <<data, cheapest_window, most_expensive_window, statistics, last_update,
               connection_status>>
hoursVars == <<min_window_hours, max_window_hours>>
detVars   == <<detector, det_state, added, pending, last>>
timerVars == <<unsub_timer, unsub_retry_timer, timers>>
coVars    == <<fetch, recalc, ops, unsub_timer, unsub_retry_timer, timers, lifecycle>>
vars == <<series, call, result, now, data, cheapest_window, most_expensive_window,
          statistics, last_update, connection_status, min_window_hours,
          max_window_hours, detector, det_state, added, pending, fetch, recalc, ops,
          unsub_timer, unsub_retry_timer, timers, lifecycle, last>>

---------------------------------------------------------------------------
(* Bounds *)

MaxLen == 3             \* longest list handed to a function in the harness
MaxPrice == 1           \* prices are 0..MaxPrice
MaxHour == 1            \* harness delivery starts are the hours 0..MaxHour
MaxCount == 2           \* largest count argument of the top-K functions
MaxWindowHours == 2     \* largest window length (harness argument, service call)
MaxConfigHours == 1     \* largest window length set in the config entry
HourTicks == 2          \* clock ticks in one hour
HoursPerDay == 2        \* hours in one (scaled-down) calendar day
TzHours == 1            \* local time minus UTC, in hours
NumHours == 3           \* hourly records in one upstream response
MaxNow == 6             \* the clock stops here
MaxOps == 2             \* setups, manual fetches and option changes in one behaviour
MaxTimers == 2          \* pending timers of one callback in the event loop

---------------------------------------------------------------------------
(* Python values *)

None == <<>>

IsNone(x) == x = <<>>

Some(v) == <<v>>

Val(x) == x[1]

Min2(a, b) == IF a < b THEN a ELSE b

Max2(a, b) == IF a > b THEN a ELSE b

\* s[i:j] for a list s and integers i, j (0-based, negative indices count from the end)
PyIndex(n, k) == IF k < 0 THEN Max2(k + n, 0) ELSE Min2(k, n)

PySlice(s, i, j) ==
    LET a == PyIndex(Len(s), i)
        b == PyIndex(Len(s), j)
    IN  IF a < b THEN SubSeq(s, a + 1, b) ELSE <<>>

RECURSIVE SeqSum(_)
SeqSum(s) == IF s = <<>> THEN 0 ELSE Head(s) + SeqSum(Tail(s))

RECURSIVE SeqMin(_)
SeqMin(s) == IF Len(s) = 1 THEN s[1] ELSE Min2(s[1], SeqMin(Tail(s)))

RECURSIVE SeqMax(_)
SeqMax(s) == IF Len(s) = 1 THEN s[1] ELSE Max2(s[1], SeqMax(Tail(s)))

\* round(num / den, 2) in hundredths: the nearest integer, a tie going to the even one
Round2(num, den) ==
    LET q == num \div den
        r == num % den
    IN  IF 2 * r < den THEN q
        ELSE IF 2 * r > den THEN q + 1
        ELSE IF q % 2 = 0 THEN q ELSE q + 1

\* an average kept unrounded, as the pair <<sum, number of prices>>
Avg(prices) == <<SeqSum(prices), Len(prices)>>

AvgLess(a, b) == a[1] * b[2] < b[1] * a[2]

AvgLeq(a, b) == a[1] * b[2] <= b[1] * a[2]

---------------------------------------------------------------------------
(* okte.py: window search *)

Prices(records) == [i \in 1..Len(records) |-> Val(records[i].price)]

\* the filter of "valid records": HourStartCET and HourEndCET are strings for every
\* record built by fetch_okte_data and are not carried in the model
IsValid(record) ==
    /\ ~IsNone(record.price)
    /\ ~IsNone(record.deliveryStart)
    /\ ~IsNone(record.deliveryEnd)
    /\ ~IsNone(record.deliveryDayCET)

RECURSIVE ValidData(_)
ValidData(records) ==
    IF records = <<>> THEN <<>>
    ELSE IF IsValid(Head(records)) THEN <<Head(records)>> \o ValidData(Tail(records))
         ELSE ValidData(Tail(records))

\* list.sort(key=deliveryStart): stable insertion of x into a sorted list
RECURSIVE InsertByStart(_, _)
InsertByStart(sorted, x) ==
    IF sorted = <<>> THEN <<x>>
    ELSE IF Val(x.deliveryStart) < Val(Head(sorted).deliveryStart)
         THEN <<x>> \o sorted
         ELSE <<Head(sorted)>> \o InsertByStart(Tail(sorted), x)

RECURSIVE SortByStart(_)
SortByStart(records) ==
    IF records = <<>> THEN <<>>
    ELSE InsertByStart(SortByStart(SubSeq(records, 1, Len(records) - 1)),
                       records[Len(records)])

NotFound(msg) == [found |-> FALSE, raised |-> FALSE, message |-> msg]

Raised(what) == [found |-> FALSE, raised |-> TRUE, message |-> what]

\* the window record with end_time taken from the first record of the window
WindowOf_EndOfFirst(window_data) ==
    [start_time |-> Val(window_data[1].deliveryStart),
     end_time   |-> Val(window_data[1].deliveryEnd),
     avg_price  |-> Round2(SeqSum(Prices(window_data)), Len(window_data)),
     min_price  |-> SeqMin(Prices(window_data)),
     max_price  |-> SeqMax(Prices(window_data)),
     records    |-> window_data,
     total_cost_per_mwh |-> Round2(SeqSum(Prices(window_data)), 1),
     avg        |-> Avg(Prices(window_data))]

\* prices are carried in hundredths, so round(sum(window_prices), 2) is
\* Round2(sum, 1)
WindowOf(window_data) ==
    [start_time |-> Val(window_data[1].deliveryStart),
     end_time   |-> Val(window_data[Len(window_data)].deliveryEnd),
     avg_price  |-> Round2(SeqSum(Prices(window_data)), Len(window_data)),
     min_price  |-> SeqMin(Prices(window_data)),
     max_price  |-> SeqMax(Prices(window_data)),
     records    |-> window_data,
     total_cost_per_mwh |-> Round2(SeqSum(Prices(window_data)), 1),
     avg        |-> Avg(Prices(window_data))]

FoundWindow(w, window_hours) ==
    [found |-> TRUE, raised |-> FALSE, window_hours |-> window_hours,
     start_time |-> w.start_time, end_time |-> w.end_time,
     avg_price |-> w.avg_price, min_price |-> w.min_price, max_price |-> w.max_price,
     total_cost_per_mwh |-> w.total_cost_per_mwh, records |-> w.records]

\* the comparison of the cheapest search turned round
CheaperThanBest_Reversed(avg, best) == IsNone(best) \/ AvgLess(Val(best).avg, avg)

\* avg_price < best_avg_price, best_avg_price starting at float('inf')
CheaperThanBest(avg, best) == IsNone(best) \/ AvgLess(avg, Val(best).avg)

\* the comparison of the most expensive search turned round
DearerThanWorst_Reversed(avg, worst) == IsNone(worst) \/ AvgLess(avg, Val(worst).avg)

\* avg_price > worst_avg_price, worst_avg_price starting at float('-inf')
DearerThanWorst(avg, worst) == IsNone(worst) \/ AvgLess(Val(worst).avg, avg)

\* comparisons that also accept an equal average: the last of the tied windows wins
Better_OrEqual(direction, avg, best) ==
    \/ IsNone(best)
    \/ IF direction = "cheapest" THEN AvgLeq(avg, Val(best).avg)
       ELSE AvgLeq(Val(best).avg, avg)

\* the comparison of find_cheapest_time_window ("cheapest") or of
\* find_most_expensive_time_window ("most_expensive")
Better(direction, avg, best) ==
    IF direction = "cheapest" THEN CheaperThanBest(avg, best)
    ELSE DearerThanWorst(avg, best)

\* the sliding loop: i runs over range(len(valid_data) - window_hours + 1); an empty
\* slice divides by zero
RECURSIVE SlideWindow(_, _, _, _, _)
SlideWindow(valid_data, window_hours, i, best, direction) ==
    IF i >= Len(valid_data) - window_hours + 1 THEN [raised |-> FALSE, best |-> best]
    ELSE LET window_data == PySlice(valid_data, i, i + window_hours)
         IN  IF window_data = <<>> THEN [raised |-> TRUE, best |-> best]
             ELSE IF Better(direction, Avg(Prices(window_data)), best)
                  THEN SlideWindow(valid_data, window_hours, i + 1,
                                   Some(WindowOf(window_data)), direction)
                  ELSE SlideWindow(valid_data, window_hours, i + 1, best, direction)

\* the search without its first guard, "if not data or len(data) < window_hours"
FindWindow_NoDataGuard(records, window_hours, direction) ==
    LET valid_data == ValidData(records)
    IN  IF Len(valid_data) < window_hours
        THEN NotFound("Not enough valid data")
        ELSE LET loop == SlideWindow(SortByStart(valid_data), window_hours, 0,
                                     None, direction)
             IN  IF loop.raised THEN Raised("ZeroDivisionError")
                 ELSE IF ~IsNone(loop.best)
                      THEN FoundWindow(Val(loop.best), window_hours)
                      ELSE NotFound("Could not find suitable time window")

FindWindow(records, window_hours, direction) ==
    IF records = <<>> \/ Len(records) < window_hours
    THEN NotFound("Not enough data")
    ELSE LET valid_data == ValidData(records)
         IN  IF Len(valid_data) < window_hours
             THEN NotFound("Not enough valid data")
             ELSE LET loop == SlideWindow(SortByStart(valid_data), window_hours, 0,
                                          None, direction)
                  IN  IF loop.raised THEN Raised("ZeroDivisionError")
                      ELSE IF ~IsNone(loop.best)
                           THEN FoundWindow(Val(loop.best), window_hours)
                           ELSE NotFound("Could not find suitable time window")

find_cheapest_time_window(records, window_hours) ==
    FindWindow(records, window_hours, "cheapest")

ArgumentAfterSort_Aliased(records) ==
    IF \A i \in 1..Len(records) : ~IsNone(records[i].deliveryStart)
    THEN SortByStart(records)
    ELSE records

\* the caller's list after "valid_data.sort(key=...)": valid_data is the new list
\* built by the comprehension, so the sort in place does not reach the argument
ArgumentAfterSort(records) == records

\* the caller's list after a window search or a top-K ranking; the sort is reached
\* only past the two length guards
ArgumentAfterCall(records, window_hours) ==
    IF records = <<>> \/ Len(records) < window_hours THEN records
    ELSE IF Len(ValidData(records)) < window_hours THEN records
         ELSE ArgumentAfterSort(records)

find_most_expensive_time_window(records, window_hours) ==
    FindWindow(records, window_hours, "most_expensive")

---------------------------------------------------------------------------
(* okte.py: top-K ranking *)

RankedWindow(window_data) ==
    [start_time |-> Val(window_data[1].deliveryStart),
     end_time   |-> Val(window_data[Len(window_data)].deliveryEnd),
     avg_price  |-> Round2(SeqSum(Prices(window_data)), Len(window_data)),
     records    |-> window_data]

\* the loop stepping by the window length: overlapping windows left out
RECURSIVE AllWindows_NoOverlap(_, _, _, _)
AllWindows_NoOverlap(valid_data, window_hours, i, windows) ==
    IF i >= Len(valid_data) - window_hours + 1 THEN [raised |-> FALSE, windows |-> windows]
    ELSE LET window_data == PySlice(valid_data, i, i + window_hours)
         IN  IF window_data = <<>> THEN [raised |-> TRUE, windows |-> windows]
             ELSE AllWindows_NoOverlap(valid_data, window_hours,
                                       i + Max2(window_hours, 1),
                                       Append(windows, RankedWindow(window_data)))

\* the loop that appends one window per offset; an empty slice divides by zero
RECURSIVE AllWindows(_, _, _, _)
AllWindows(valid_data, window_hours, i, windows) ==
    IF i >= Len(valid_data) - window_hours + 1 THEN [raised |-> FALSE, windows |-> windows]
    ELSE LET window_data == PySlice(valid_data, i, i + window_hours)
         IN  IF window_data = <<>> THEN [raised |-> TRUE, windows |-> windows]
             ELSE AllWindows(valid_data, window_hours, i + 1,
                             Append(windows, RankedWindow(window_data)))

\* a sort that is not stable: of two equal averages the later offset goes first
RanksBefore_Unstable(direction, x, y) ==
    IF direction = "cheapest" THEN x.avg_price <= y.avg_price
    ELSE x.avg_price >= y.avg_price

\* x goes before y in windows.sort(key=avg_price) / windows.sort(..., reverse=True)
RanksBefore(direction, x, y) ==
    IF direction = "cheapest" THEN x.avg_price < y.avg_price
    ELSE x.avg_price > y.avg_price

\* both sorts are stable: equal averages keep the order of the offsets
RECURSIVE InsertByAvg(_, _, _)
InsertByAvg(sorted, x, direction) ==
    IF sorted = <<>> THEN <<x>>
    ELSE IF RanksBefore(direction, x, Head(sorted))
         THEN <<x>> \o sorted
         ELSE <<Head(sorted)>> \o InsertByAvg(Tail(sorted), x, direction)

RECURSIVE SortByAvg(_, _)
SortByAvg(windows, direction) ==
    IF windows = <<>> THEN <<>>
    ELSE InsertByAvg(SortByAvg(SubSeq(windows, 1, Len(windows) - 1), direction),
                     windows[Len(windows)], direction)

\* the last count windows returned instead of the first
TopCount_Last(windows, count) == PySlice(windows, Len(windows) - count, Len(windows))

\* return windows[:count]
TopCount(windows, count) == PySlice(windows, 0, count)

FindMultiple(records, window_hours, count, direction) ==
    IF records = <<>> \/ Len(records) < window_hours
    THEN [raised |-> FALSE, windows |-> <<>>]
    ELSE LET valid_data == ValidData(records)
         IN  IF Len(valid_data) < window_hours
             THEN [raised |-> FALSE, windows |-> <<>>]
             ELSE LET loop == AllWindows(SortByStart(valid_data), window_hours, 0, <<>>)
                  IN  IF loop.raised THEN [raised |-> TRUE, windows |-> <<>>]
                      ELSE [raised |-> FALSE,
                            windows |-> TopCount(SortByAvg(loop.windows, direction), count)]

find_multiple_cheap_windows(records, window_hours, count) ==
    FindMultiple(records, window_hours, count, "cheapest")

find_multiple_expensive_windows(records, window_hours, count) ==
    FindMultiple(records, window_hours, count, "most_expensive")

---------------------------------------------------------------------------
(* okte.py: price statistics *)

\* the dictionary returned when there is nothing to compute
NoStatistics ==
    [raised |-> FALSE, min_price |-> None, max_price |-> None, avg_price |-> None,
     count |-> 0, min_record |-> None, max_record |-> None]

\* an exception leaving calculate_price_statistics
StatisticsRaised ==
    [raised |-> TRUE, min_price |-> None, max_price |-> None, avg_price |-> None,
     count |-> 0, min_record |-> None, max_record |-> None]

\* [record for record in data if record['price'] is not None]
RECURSIVE PricedRecords(_)
PricedRecords(records) ==
    IF records = <<>> THEN <<>>
    ELSE IF ~IsNone(Head(records).price)
         THEN <<Head(records)>> \o PricedRecords(Tail(records))
         ELSE PricedRecords(Tail(records))

FirstWithPrice_Last(records, price) ==
    LET hits == {i \in 1..Len(records) : Val(records[i].price) = price}
    IN  records[CHOOSE i \in hits : \A j \in hits : j <= i]

\* next(record for record in valid_prices if record['price'] == price)
FirstWithPrice(records, price) ==
    LET hits == {i \in 1..Len(records) : Val(records[i].price) = price}
    IN  records[CHOOSE i \in hits : \A j \in hits : i <= j]

\* the statistics of the priced records; min() of an empty list raises ValueError
StatisticsOf(valid_prices) ==
    IF valid_prices = <<>> THEN StatisticsRaised
    ELSE LET prices == Prices(valid_prices)
             min_price == SeqMin(prices)
             max_price == SeqMax(prices)
         IN  [raised |-> FALSE,
              min_price |-> Some(min_price),
              max_price |-> Some(max_price),
              avg_price |-> Some(Round2(SeqSum(prices), Len(prices))),
              count |-> Len(valid_prices),
              min_record |-> Some(FirstWithPrice(valid_prices, min_price)),
              max_record |-> Some(FirstWithPrice(valid_prices, max_price))]

calculate_price_statistics_Unguarded(records) ==
    IF records = <<>> THEN NoStatistics
    ELSE StatisticsOf(PricedRecords(records))

calculate_price_statistics(records) ==
    IF records = <<>> THEN NoStatistics
    ELSE LET valid_prices == PricedRecords(records)
         IN  IF valid_prices = <<>> THEN NoStatistics
             ELSE StatisticsOf(valid_prices)

---------------------------------------------------------------------------
(* Time: timestamps, time zone, calendar date *)

DayTicks == HourTicks * HoursPerDay

TzOffset == TzHours * HourTicks

\* the latest instant an upstream record names (the end of the last hour)
MaxTick == NumHours * HourTicks

\* the string ""
EmptyStr == 0 - 1

\* a non-empty string that datetime.fromisoformat rejects
BadStr == MaxTick + 1

\* truth value of a string: `if record.get('deliveryStart')`, `if not start_time_attr`
Truthy(s) == s # EmptyStr

\* every non-empty string taken for a timestamp
CanParse_AcceptsAll(s) == TRUE

\* datetime.fromisoformat(s.replace('Z', '+00:00')) succeeds
CanParse(s) == s >= 0 /\ s <= MaxTick

\* astimezone(tz).replace(tzinfo=None)
ToLocal(t) == t + TzOffset

\* .date()
DateOf(t) == t \div DayTicks

---------------------------------------------------------------------------
(* base.py: date filter;  sensors_detectors_*.py: window lookup and recompute *)

KeepForDate_UpToDate(record, target_date) ==
    /\ ~IsNone(record.deliveryStart)
    /\ Truthy(Val(record.deliveryStart))
    /\ CanParse(Val(record.deliveryStart))
    /\ DateOf(ToLocal(Val(record.deliveryStart))) <= target_date

KeepForDate(record, target_date) ==
    /\ ~IsNone(record.deliveryStart)
    /\ Truthy(Val(record.deliveryStart))
    /\ CanParse(Val(record.deliveryStart))
    /\ DateOf(ToLocal(Val(record.deliveryStart))) = target_date

RECURSIVE FilterByDate(_, _)
FilterByDate(records, target_date) ==
    IF records = <<>> THEN <<>>
    ELSE IF KeepForDate(Head(records), target_date)
         THEN <<Head(records)>> \o FilterByDate(Tail(records), target_date)
         ELSE FilterByDate(Tail(records), target_date)

\* _filter_data_by_date(datetime.now().date()) for a "today" detector (day = 0),
\* datetime.now().date() + timedelta(days=1) for a "tomorrow" detector (day = 1)
TargetDate(det, clock) == DateOf(clock) + det.day

\* _get_min_window_hours() for a cheapest detector, _get_max_window_hours() otherwise
HoursFor(det, min_hours, max_hours) ==
    IF det.direction = "cheapest" THEN min_hours ELSE max_hours

\* the end of the window taken from the result cached in the store
GetWindow_EndFromCache(det, records, window_hours, clock) ==
    LET day_data == FilterByDate(records, TargetDate(det, clock))
        cached == IF det.direction = "cheapest" THEN cheapest_window
                  ELSE most_expensive_window
        window == IF day_data = <<>> THEN NotFound("No data available")
                  ELSE FindWindow(day_data, window_hours, det.direction)
    IN  IF window.found /\ ~IsNone(cached) /\ Val(cached).found
        THEN [window EXCEPT !.end_time = Val(cached).end_time]
        ELSE window

\* _get_cheapest_window_today and its three siblings
GetWindow(det, records, window_hours, clock) ==
    LET day_data == FilterByDate(records, TargetDate(det, clock))
    IN  IF day_data = <<>> THEN NotFound("No data available")
        ELSE FindWindow(day_data, window_hours, det.direction)

\* the end of the window counted in
InWindow_ClosedEnd(start_local, clock, end_local) ==
    start_local <= clock /\ clock <= end_local

\* start_time_local <= now < end_time_local
InWindow(start_local, clock, end_local) ==
    start_local <= clock /\ clock < end_local

\* a window that was not found, or has no bounds, leaves the state as it was
UpdateDetectorState_KeepsState(state, window, clock) ==
    IF window.raised
    THEN [state |-> FALSE, escaped |-> FALSE, path |-> "lookup_failed",
          start_time |-> 0, end_time |-> 0]
    ELSE IF ~window.found
    THEN [state |-> state, escaped |-> FALSE, path |-> "not_found",
          start_time |-> 0, end_time |-> 0]
    ELSE IF ~Truthy(window.start_time) \/ ~Truthy(window.end_time)
    THEN [state |-> state, escaped |-> FALSE, path |-> "no_bounds",
          start_time |-> window.start_time, end_time |-> window.end_time]
    ELSE IF ~CanParse(window.start_time) \/ ~CanParse(window.end_time)
    THEN [state |-> FALSE, escaped |-> FALSE, path |-> "parse_failed",
          start_time |-> window.start_time, end_time |-> window.end_time]
    ELSE [state |-> InWindow(ToLocal(window.start_time), clock,
                             ToLocal(window.end_time)),
          escaped |-> FALSE, path |-> "compared",
          start_time |-> window.start_time, end_time |-> window.end_time]

\* _update_detector_state once the window has been looked up; clock is the second
\* reading of datetime.now()
UpdateDetectorState(state, window, clock) ==
    IF window.raised
    THEN [state |-> FALSE, escaped |-> FALSE, path |-> "lookup_failed",
          start_time |-> 0, end_time |-> 0]
    ELSE IF ~window.found
    THEN [state |-> FALSE, escaped |-> FALSE, path |-> "not_found",
          start_time |-> 0, end_time |-> 0]
    ELSE IF ~Truthy(window.start_time) \/ ~Truthy(window.end_time)
    THEN [state |-> FALSE, escaped |-> FALSE, path |-> "no_bounds",
          start_time |-> window.start_time, end_time |-> window.end_time]
    ELSE IF ~CanParse(window.start_time) \/ ~CanParse(window.end_time)
    THEN [state |-> FALSE, escaped |-> FALSE, path |-> "parse_failed",
          start_time |-> window.start_time, end_time |-> window.end_time]
    ELSE [state |-> InWindow(ToLocal(window.start_time), clock,
                             ToLocal(window.end_time)),
          escaped |-> FALSE, path |-> "compared",
          start_time |-> window.start_time, end_time |-> window.end_time]

---------------------------------------------------------------------------
(* Harness for the functions of okte.py: a list is drawn, then one function *)
(* is applied to it.                                                        *)

Record(price, start, end, day) ==
    [price |-> price, deliveryStart |-> start, deliveryEnd |-> end,
     deliveryDayCET |-> day]

\* complete hourly records, and records with one field absent
FnRecords ==
    {Record(Some(p), Some(h), Some(h + 1), Some(0)) : p \in 0..MaxPrice, h \in 0..MaxHour}
    \cup {Record(None, Some(0), Some(1), Some(0)),
          Record(Some(0), None, Some(1), Some(0)),
          Record(Some(0), Some(0), None, Some(0)),
          Record(Some(0), Some(0), Some(1), None)}

FnSeries == UNION {[1..n -> FnRecords] : n \in 0..MaxLen}

WindowArgs == (0 - 1)..MaxWindowHours

CountArgs == (0 - 1)..MaxCount

NoCall == [op |-> "none", window_hours |-> 0, count |-> 0]

NoResult == [found |-> FALSE, raised |-> FALSE, message |-> "none"]

IdleFetch == [pc |-> "idle"]

IdleRecalc == [pc |-> "idle"]

NoTimers == [daily |-> 0, retry |-> 0]

DEFAULT_CHEAPEST_TIME_WINDOW_PERIOD == 5

DEFAULT_MOST_EXPENSIVE_TIME_WINDOW_PERIOD == 5

NoEval ==
    [done |-> FALSE, trigger |-> "none", date |-> 0, now |-> 0, was |-> FALSE,
     path |-> "none",
     start_time |-> 0, end_time |-> 0, escaped |-> FALSE]

\* the variables of the store and of the detector, at rest
SystemAtRest ==
    /\ now = 0
    /\ data = <<>>
    /\ cheapest_window = None
    /\ most_expensive_window = None
    /\ statistics = None
    /\ last_update = None
    /\ connection_status = FALSE
    /\ min_window_hours = 1
    /\ max_window_hours = 1
    /\ detector = [direction |-> "cheapest", day |-> 0]
    /\ det_state = FALSE
    /\ added = FALSE
    /\ pending = {}
    /\ fetch = IdleFetch
    /\ recalc = IdleRecalc
    /\ ops = 0
    /\ unsub_timer = "none"
    /\ unsub_retry_timer = "none"
    /\ timers = NoTimers
    /\ lifecycle = "constructed"
    /\ last = NoEval

sysVars == <<now, data, cheapest_window, most_expensive_window, statistics,
             last_update, connection_status, min_window_hours, max_window_hours,
             detector, det_state, added, pending, fetch, recalc, ops, unsub_timer,
             unsub_retry_timer, timers, lifecycle, last>>

InitFn ==
    /\ series \in FnSeries
    /\ call = NoCall
    /\ result = NoResult
    /\ SystemAtRest

CallCheapest ==
    /\ call.op = "none"
    /\ \E w \in WindowArgs :
         /\ call' = [op |-> "find_cheapest_time_window", window_hours |-> w, count |-> 0]
         /\ result' = find_cheapest_time_window(series, w)
         /\ series' = ArgumentAfterCall(series, w)
    /\ UNCHANGED sysVars

CallMostExpensive ==
    /\ call.op = "none"
    /\ \E w \in WindowArgs :
         /\ call' = [op |-> "find_most_expensive_time_window", window_hours |-> w,
                     count |-> 0]
         /\ result' = find_most_expensive_time_window(series, w)
         /\ series' = ArgumentAfterCall(series, w)
    /\ UNCHANGED sysVars

CallMultipleCheap ==
    /\ call.op = "none"
    /\ \E w \in WindowArgs, k \in CountArgs :
         /\ call' = [op |-> "find_multiple_cheap_windows", window_hours |-> w, count |-> k]
         /\ result' = find_multiple_cheap_windows(series, w, k)
         /\ series' = ArgumentAfterCall(series, w)
    /\ UNCHANGED sysVars

CallMultipleExpensive ==
    /\ call.op = "none"
    /\ \E w \in WindowArgs, k \in CountArgs :
         /\ call' = [op |-> "find_multiple_expensive_windows", window_hours |-> w,
                     count |-> k]
         /\ result' = find_multiple_expensive_windows(series, w, k)
         /\ series' = ArgumentAfterCall(series, w)
    /\ UNCHANGED sysVars

\* the date filter of base.py applied to a drawn list: deliveryStart is absent, the
\* empty string, a string that is no timestamp, or a timestamp on one of several days
FilterStarts ==
    {None, Some(EmptyStr), Some(BadStr)} \cup {Some(t) : t \in 0..MaxTick}

FilterRecords == {Record(Some(0), s, Some(1), Some(0)) : s \in FilterStarts}

FilterSeries == UNION {[1..n -> FilterRecords] : n \in 0..MaxLen}

\* the calendar dates asked for: every date of a record, one before and one after
FilterDates == (0 - 1)..(DateOf(ToLocal(MaxTick)) + 1)

InitFilter ==
    /\ series \in FilterSeries
    /\ call = NoCall
    /\ result = NoResult
    /\ SystemAtRest

CallFilterByDate ==
    /\ call.op = "none"
    /\ \E target_date \in FilterDates :
         /\ call' = [op |-> "_filter_data_by_date", target_date |-> target_date]
         /\ result' = [raised |-> FALSE,
                       filtered_data |-> FilterByDate(series, target_date)]
    /\ UNCHANGED <<series, sysVars>>

CallStatistics ==
    /\ call.op = "none"
    /\ call' = [op |-> "calculate_price_statistics", window_hours |-> 0, count |-> 0]
    /\ result' = calculate_price_statistics(series)
    /\ UNCHANGED <<series, sysVars>>

NextFn ==
    \/ CallCheapest
    \/ CallMostExpensive
    \/ CallMultipleCheap
    \/ CallMultipleExpensive
    \/ CallStatistics
    \/ CallFilterByDate

SpecFn == InitFn /\ [][NextFn]_vars

NextFilter == CallFilterByDate

SpecFilter == InitFilter /\ [][NextFilter]_vars

---------------------------------------------------------------------------
(* The store, the coroutines that fill it, and one detector *)

Detectors ==
    {[direction |-> d, day |-> n] : d \in {"cheapest", "most_expensive"}, n \in {0, 1}}

EndKinds == {"iso", "empty", "bad"}

EndOf(h, kind) ==
    IF kind = "iso" THEN (h + 1) * HourTicks
    ELSE IF kind = "empty" THEN EmptyStr ELSE BadStr

\* a response of the API: one record per hour, the hours in order
Hourly(prices, kind) ==
    [i \in 1..NumHours |->
        Record(Some(prices[i]), Some((i - 1) * HourTicks), Some(EndOf(i - 1, kind)),
               Some(0))]

\* the prices of a response: one hour is the cheap one
PricePatterns ==
    {[i \in 1..NumHours |-> IF i = cheap THEN 0 ELSE MaxPrice] : cheap \in 1..NumHours}

\* well-formed responses, and responses whose deliveryEnd is empty or malformed
Upstream ==
    {Hourly(prices, "iso") : prices \in PricePatterns}
    \cup {Hourly([i \in 1..NumHours |-> 0], kind) : kind \in EndKinds \ {"iso"}}

\* async_setup: the store is empty; OkteDataCoordinator.__init__: no timer handles
Init ==
    /\ series = <<>>
    /\ call = NoCall
    /\ result = NoResult
    /\ now = 0
    /\ data = <<>>
    /\ cheapest_window = None
    /\ most_expensive_window = None
    /\ statistics = None
    /\ last_update = None
    /\ connection_status = FALSE
    /\ min_window_hours \in 0..MaxConfigHours
    /\ max_window_hours \in 0..MaxConfigHours
    /\ detector \in Detectors
    /\ det_state = FALSE
    /\ added = FALSE
    /\ pending = {}
    /\ fetch = IdleFetch
    /\ recalc = IdleRecalc
    /\ ops = 0
    /\ unsub_timer = "none"
    /\ unsub_retry_timer = "none"
    /\ timers = NoTimers
    /\ lifecycle = "constructed"
    /\ last = NoEval

\* the store or the clock moved on: the last recompute no longer describes them
Stale(l) == NoEval

Tick ==
    /\ now < MaxNow
    /\ now' = now + 1
    /\ last' = Stale(last)
    /\ UNCHANGED <<fnVars, storeVars, hoursVars, detector, det_state, added, pending,
                   coVars>>

\* the coordinator's timer handles ("none": None, "pending": the handle of a timer
\* that has neither fired nor been cancelled, "spent": the handle of one that has) and
\* the timers pending in the event loop
Coordinator ==
    [unsub_timer |-> unsub_timer, unsub_retry_timer |-> unsub_retry_timer,
     timers |-> timers]

SetCoordinator(c) ==
    /\ c.timers.daily <= MaxTimers
    /\ c.timers.retry <= MaxTimers
    /\ unsub_timer' = c.unsub_timer
    /\ unsub_retry_timer' = c.unsub_retry_timer
    /\ timers' = c.timers

\* _schedule_next_fetch: call_later; the handle kept so far is overwritten and the
\* timer it stands for is not cancelled
schedule_next_fetch(c) ==
    [c EXCEPT !.unsub_timer = "pending", !.timers.daily = @ + 1]

\* _schedule_retry: call_later(60, ...), the handle overwritten likewise
schedule_retry(c) ==
    [c EXCEPT !.unsub_retry_timer = "pending", !.timers.retry = @ + 1]

\* "if self._unsub_timer: cancel(); self._unsub_timer = None"
cancel_timer(c) ==
    [c EXCEPT !.unsub_timer = "none",
              !.timers.daily = IF c.unsub_timer = "pending" THEN @ - 1 ELSE @]

\* "if self._unsub_retry_timer: cancel(); self._unsub_retry_timer = None"
cancel_retry_timer(c) ==
    [c EXCEPT !.unsub_retry_timer = "none",
              !.timers.retry = IF c.unsub_retry_timer = "pending" THEN @ - 1 ELSE @]

async_stop(c) == cancel_retry_timer(cancel_timer(c))

\* the kinds of fetch: "auto" is _fetch_data awaited by async_start or run by the
\* retry timer's task, "daily" is _fetch_and_reschedule, "service" is
\* fetch_data_service and "button" is async_press
CoordinatorKinds == {"auto", "daily"}

ManualKinds == {"service", "button"}

\* what _fetch_data and _fetch_and_reschedule do with the timers once the request is
\* over: a retry is scheduled or the retry handle cancelled, then the next daily fetch
\* is scheduled
AfterFetch(kind, c, stored) ==
    LET fetched == IF kind \notin CoordinatorKinds THEN c
                   ELSE IF stored THEN cancel_retry_timer(c) ELSE schedule_retry(c)
    IN  IF kind = "daily" THEN schedule_next_fetch(fetched) ELSE fetched

\* async_setup_entry awaits the initial fetch before it sets up the platforms and
\* registers the services
Settled(l) == IF l = "starting" THEN "running" ELSE l

\* _fetch_data, async_press: the window lengths are read before the request is sent;
\* fetch_data_service reads them when the response is there
BeginFetch(kind, min_hours, max_hours) ==
    fetch' = [pc |-> "fetching", kind |-> kind,
              min_hours |-> IF kind = "service" THEN 0 ELSE min_hours,
              max_hours |-> IF kind = "service" THEN 0 ELSE max_hours]

\* async_start: "fetch data immediately if we don't have any"
InitialFetch(min_hours, max_hours) ==
    IF data = <<>>
    THEN /\ fetch.pc = "idle"
         /\ BeginFetch("auto", min_hours, max_hours)
    ELSE UNCHANGED fetch

\* async_setup_entry up to the request of the initial fetch
Start ==
    /\ lifecycle = "constructed"
    /\ lifecycle' = "starting"
    /\ ops < MaxOps
    /\ ops' = ops + 1
    /\ connection_status' = FALSE
    /\ SetCoordinator(schedule_next_fetch(Coordinator))
    /\ InitialFetch(min_window_hours, max_window_hours)
    /\ UNCHANGED <<fnVars, now, data, cheapest_window, most_expensive_window,
                   statistics, last_update, hoursVars, detVars, recalc>>

\* fetch_data_service, async_press up to the request
FetchStart(kind) ==
    /\ lifecycle = "running"
    /\ fetch.pc = "idle"
    /\ ops < MaxOps
    /\ ops' = ops + 1
    /\ BeginFetch(kind, min_window_hours, max_window_hours)
    /\ UNCHANGED <<fnVars, now, storeVars, hoursVars, detVars, recalc, timerVars,
                   lifecycle>>

\* the windows a fetch computes from a response before it stores anything
Computed(response, min_hours, max_hours) ==
    [cheapest |-> find_cheapest_time_window(response, min_hours),
     most_expensive |-> find_most_expensive_time_window(response, max_hours)]

\* the else branch and the except clause of a fetch
MarkDisconnected ==
    /\ connection_status' = FALSE
    /\ UNCHANGED <<data, cheapest_window, most_expensive_window, statistics,
                   last_update>>

\* fetch_data_service and async_press look the coordinator up in the store once more
\* after the event is fired: a KeyError once async_unload_entry has cleared the store
RaisesAfterStore == fetch.kind \in ManualKinds /\ lifecycle = "unloaded"

\* the event fired with the store left as it was
Publish_FiresWithoutStoring(response, c) ==
    /\ UNCHANGED storeVars
    /\ pending' = pending \cup {"okte_data_updated"}
    /\ fetch' = IdleFetch
    /\ last' = Stale(last)

\* the block "Store data" and the okte_data_updated event
Publish(response, c) ==
    /\ data' = response
    /\ statistics' = Some(calculate_price_statistics(response))
    /\ cheapest_window' = Some(c.cheapest)
    /\ most_expensive_window' = Some(c.most_expensive)
    /\ last_update' = Some(DateOf(now))
    /\ connection_status' = ~RaisesAfterStore
    /\ pending' = pending \cup {"okte_data_updated"}
    /\ fetch' = IdleFetch
    /\ last' = Stale(last)

\* a fetch ends in its else branch or its except clause
Abandon ==
    /\ fetch' = IdleFetch
    /\ MarkDisconnected
    /\ UNCHANGED <<pending, last>>

\* _fetch_data, _fetch_and_reschedule, async_press: the response is there; statistics
\* and windows are computed from it with the lengths read at the start, then all is
\* stored (a window search that raises ends the fetch in the except clause)
FetchReturned ==
    /\ fetch.pc = "fetching"
    /\ fetch.kind # "service"
    /\ \E response \in Upstream :
         LET c == Computed(response, fetch.min_hours, fetch.max_hours)
             stored == ~(c.cheapest.raised \/ c.most_expensive.raised)
         IN  /\ IF stored THEN Publish(response, c) ELSE Abandon
             /\ SetCoordinator(AfterFetch(fetch.kind, Coordinator, stored))
    /\ lifecycle' = Settled(lifecycle)
    /\ UNCHANGED <<fnVars, now, hoursVars, detector, det_state, added, recalc, ops>>

\* fetch_data_service: the response is there, the coordinator is looked up in the
\* store and the window lengths are read now
ServiceReturned ==
    /\ fetch.pc = "fetching"
    /\ fetch.kind = "service"
    /\ \E response \in Upstream :
         IF lifecycle = "unloaded"
         THEN Abandon
         ELSE /\ fetch' = [pc |-> "computing", kind |-> "service", data |-> response,
                           min_hours |-> min_window_hours,
                           max_hours |-> max_window_hours]
              /\ UNCHANGED <<storeVars, pending, last>>
    /\ UNCHANGED <<fnVars, now, hoursVars, detector, det_state, added, recalc, ops,
                   timerVars, lifecycle>>

\* fetch_data_service: the executor jobs are done
ServicePublish ==
    /\ fetch.pc = "computing"
    /\ LET c == Computed(fetch.data, fetch.min_hours, fetch.max_hours)
       IN  IF c.cheapest.raised \/ c.most_expensive.raised
           THEN Abandon
           ELSE Publish(fetch.data, c)
    /\ UNCHANGED <<fnVars, now, hoursVars, detector, det_state, added, recalc, ops,
                   timerVars, lifecycle>>

\* fetch_okte_data returned [] or raised: nothing is stored
FetchFailed ==
    /\ fetch.pc = "fetching"
    /\ Abandon
    /\ SetCoordinator(AfterFetch(fetch.kind, Coordinator, FALSE))
    /\ lifecycle' = Settled(lifecycle)
    /\ UNCHANGED <<fnVars, now, hoursVars, detector, det_state, added, recalc, ops>>

\* set_cheapest_window_hours_service / set_most_expensive_window_hours_service up to
\* the first await of _recalculate_time_windows
SetWindowHours(direction, window_hours) ==
    /\ lifecycle = "running"
    /\ recalc.pc = "idle"
    /\ ops < MaxOps
    /\ ops' = ops + 1
    /\ window_hours >= 1
    /\ window_hours <= MaxWindowHours
    /\ min_window_hours' = IF direction = "cheapest" THEN window_hours
                           ELSE min_window_hours
    /\ max_window_hours' = IF direction = "cheapest" THEN max_window_hours
                           ELSE window_hours
    /\ LET c == find_cheapest_time_window(data, min_window_hours')
           m == find_most_expensive_time_window(data, max_window_hours')
       IN  recalc' = IF data = <<>> \/ c.raised \/ m.raised
                     THEN IdleRecalc
                     ELSE [pc |-> "computed", cheapest |-> c, most_expensive |-> m]
    /\ last' = Stale(last)
    /\ UNCHANGED <<fnVars, now, storeVars, detector, det_state, added, pending, fetch,
                   timerVars, lifecycle>>

\* async_update_options: the options flow saved new window lengths (cv.positive_int
\* lets 0 pass in both flows, and for an option of 0 the getters return the length of
\* the config entry's data); the coordinator is restarted, no window is recalculated
\* and no event is fired
UpdateOptions(min_hours, max_hours) ==
    /\ lifecycle = "running"
    /\ ops < MaxOps
    /\ ops' = ops + 1
    /\ min_window_hours' = min_hours
    /\ max_window_hours' = max_hours
    /\ SetCoordinator(schedule_next_fetch(async_stop(Coordinator)))
    /\ InitialFetch(min_hours, max_hours)
    /\ last' = Stale(last)
    /\ UNCHANGED <<fnVars, now, storeVars, detector, det_state, added, pending, recalc,
                   lifecycle>>

\* async_unload_entry: the coordinator is stopped, the platforms are unloaded and, if
\* that went well, the store is cleared (the getters of the window lengths then read
\* the defaults)
Unload(unload_ok) ==
    /\ lifecycle = "running"
    /\ SetCoordinator(async_stop(Coordinator))
    /\ IF unload_ok
       THEN /\ lifecycle' = "unloaded"
            /\ data' = <<>>
            /\ cheapest_window' = None
            /\ most_expensive_window' = None
            /\ statistics' = None
            /\ last_update' = None
            /\ connection_status' = FALSE
            /\ min_window_hours' = DEFAULT_CHEAPEST_TIME_WINDOW_PERIOD
            /\ max_window_hours' = DEFAULT_MOST_EXPENSIVE_TIME_WINDOW_PERIOD
            /\ last' = Stale(last)
       ELSE /\ lifecycle' = "stopped"
            /\ UNCHANGED <<storeVars, hoursVars, last>>
    /\ UNCHANGED <<fnVars, now, detector, det_state, added, pending, fetch, recalc,
                   ops>>

\* a daily-fetch timer fires, the one the handle stands for or one whose handle was
\* overwritten: its callback creates the task _fetch_and_reschedule
DailyTimerFires(held) ==
    /\ fetch.pc = "idle"
    /\ IF held THEN unsub_timer = "pending"
       ELSE timers.daily > (IF unsub_timer = "pending" THEN 1 ELSE 0)
    /\ unsub_timer' = IF held THEN "spent" ELSE unsub_timer
    /\ timers' = [timers EXCEPT !.daily = @ - 1]
    /\ BeginFetch("daily", min_window_hours, max_window_hours)
    /\ UNCHANGED <<fnVars, now, storeVars, hoursVars, detVars, recalc, ops,
                   unsub_retry_timer, lifecycle>>

\* a retry timer fires: its callback creates a task running _fetch_data
RetryTimerFires(held) ==
    /\ fetch.pc = "idle"
    /\ IF held THEN unsub_retry_timer = "pending"
       ELSE timers.retry > (IF unsub_retry_timer = "pending" THEN 1 ELSE 0)
    /\ unsub_retry_timer' = IF held THEN "spent" ELSE unsub_retry_timer
    /\ timers' = [timers EXCEPT !.retry = @ - 1]
    /\ BeginFetch("auto", min_window_hours, max_window_hours)
    /\ UNCHANGED <<fnVars, now, storeVars, hoursVars, detVars, recalc, ops,
                   unsub_timer, lifecycle>>

\* the recalculation switching the detector off itself
RecalcPublish_ResetsDetector ==
    /\ recalc.pc = "computed"
    /\ cheapest_window' = Some(recalc.cheapest)
    /\ most_expensive_window' = Some(recalc.most_expensive)
    /\ pending' = pending \cup {"okte_data_updated", "okte_force_update",
                                "okte_detectors_update"}
    /\ recalc' = IdleRecalc
    /\ det_state' = FALSE
    /\ UNCHANGED <<fnVars, now, data, statistics, last_update, connection_status,
                   hoursVars, detector, added, fetch, ops, timerVars, lifecycle, last>>

\* "Update stored windows" and the three events that follow
RecalcPublish ==
    /\ recalc.pc = "computed"
    /\ cheapest_window' = Some(recalc.cheapest)
    /\ most_expensive_window' = Some(recalc.most_expensive)
    /\ pending' = pending \cup {"okte_data_updated", "okte_force_update",
                                "okte_detectors_update"}
    /\ recalc' = IdleRecalc
    /\ UNCHANGED <<fnVars, now, data, statistics, last_update, connection_status,
                   hoursVars, detector, det_state, added, fetch, ops, timerVars,
                   lifecycle, last>>

\* one run of _update_detector_state: the clock is read for the date filter and again
\* for the comparison, and may have moved on in between
Recompute(trigger) ==
    \E adv \in {0, 1} :
        /\ now + adv <= MaxNow
        /\ now' = now + adv
        /\ LET window == GetWindow(detector, data,
                                   HoursFor(detector, min_window_hours, max_window_hours),
                                   now)
               out == UpdateDetectorState(det_state, window, now + adv)
           IN  /\ det_state' = out.state
               /\ last' = [done |-> TRUE, trigger |-> trigger,
                           date |-> TargetDate(detector, now), now |-> now + adv,
                           was |-> det_state, path |-> out.path,
                           start_time |-> out.start_time, end_time |-> out.end_time,
                           escaped |-> out.escaped]

AddedToHass ==
    /\ ~added
    /\ added' = TRUE
    /\ Recompute("added")
    /\ UNCHANGED <<fnVars, storeVars, hoursVars, detector, pending, coVars>>

\* the hourly callback writing the state it has, without recomputing it
HourlyUpdate_WritesOnly ==
    /\ now % HourTicks = 0
    /\ last' = [done |-> TRUE, trigger |-> "hourly", date |-> TargetDate(detector, now),
                now |-> now, was |-> det_state, path |-> "none", start_time |-> 0,
                end_time |-> 0, escaped |-> FALSE]
    /\ UNCHANGED <<fnVars, now, storeVars, hoursVars, detector, det_state, added,
                   pending, coVars>>

\* async_track_time_change(minute=0, second=0)
HourlyUpdate ==
    /\ now % HourTicks = 0
    /\ Recompute("hourly")
    /\ UNCHANGED <<fnVars, storeVars, hoursVars, detector, added, pending, coVars>>

HandleDataUpdate ==
    /\ "okte_data_updated" \in pending
    /\ pending' = pending \ {"okte_data_updated"}
    /\ Recompute("data")
    /\ UNCHANGED <<fnVars, storeVars, hoursVars, detector, added, coVars>>

HandleForceUpdate(event) ==
    /\ event \in pending
    /\ pending' = pending \ {event}
    /\ Recompute("force")
    /\ UNCHANGED <<fnVars, storeVars, hoursVars, detector, added, coVars>>

Next ==
    \/ Tick
    \/ Start
    \/ \E kind \in ManualKinds : FetchStart(kind)
    \/ FetchReturned
    \/ ServiceReturned
    \/ ServicePublish
    \/ FetchFailed
    \/ \E d \in {"cheapest", "most_expensive"}, w \in 1..MaxWindowHours :
          SetWindowHours(d, w)
    \/ \E min_hours \in 0..MaxConfigHours, max_hours \in 0..MaxConfigHours :
          UpdateOptions(min_hours, max_hours)
    \/ RecalcPublish
    \/ AddedToHass
    \/ HourlyUpdate
    \/ HandleDataUpdate
    \/ \E e \in {"okte_force_update", "okte_detectors_update"} : HandleForceUpdate(e)

Spec == Init /\ [][Next]_vars

\* the integration set up and running: the initial fetch of async_start has stored a
\* well-formed series with its windows, the detector was added at tick 0 (outside
\* every window), and the options flow has saved window lengths since
InitRunning ==
    /\ series = <<>>
    /\ call = NoCall
    /\ result = NoResult
    /\ now = 0
    /\ \E prices \in PricePatterns :
         LET response == Hourly(prices, "iso")
         IN
         /\ data = response
         /\ cheapest_window = Some(Computed(response, 1, 1).cheapest)
         /\ most_expensive_window = Some(Computed(response, 1, 1).most_expensive)
         /\ statistics = Some(calculate_price_statistics(response))
    /\ last_update = Some(0)
    /\ connection_status = TRUE
    /\ min_window_hours \in 0..MaxConfigHours
    /\ max_window_hours \in 0..MaxConfigHours
    /\ detector \in Detectors
    /\ det_state = FALSE
    /\ added = TRUE
    /\ pending = {}
    /\ fetch = IdleFetch
    /\ recalc = IdleRecalc
    /\ ops = 0
    /\ unsub_timer = "pending"
    /\ unsub_retry_timer = "none"
    /\ timers = [daily |-> 1, retry |-> 0]
    /\ lifecycle = "running"
    /\ last = NoEval

\* the window-length services and the detector, no fetch in between
NextRecalc ==
    \/ Tick
    \/ \E d \in {"cheapest", "most_expensive"}, w \in 1..MaxWindowHours :
          SetWindowHours(d, w)
    \/ RecalcPublish
    \/ HourlyUpdate
    \/ HandleDataUpdate
    \/ \E e \in {"okte_force_update", "okte_detectors_update"} : HandleForceUpdate(e)

SpecRecalc == InitRunning /\ [][NextRecalc]_vars

\* the coordinator, the fetches and the services; the clock stands still and no
\* detector listens
InitCoordinator ==
    /\ Init
    /\ detector = [direction |-> "cheapest", day |-> 0]

\* automatic fetches, manual fetches and the window-length services
NextStore ==
    \/ Start
    \/ \E kind \in ManualKinds : FetchStart(kind)
    \/ FetchReturned
    \/ ServiceReturned
    \/ ServicePublish
    \/ FetchFailed
    \/ \E d \in {"cheapest", "most_expensive"}, w \in 1..MaxWindowHours :
          SetWindowHours(d, w)
    \/ RecalcPublish
    \/ \E held \in BOOLEAN : DailyTimerFires(held)
    \/ \E held \in BOOLEAN : RetryTimerFires(held)

SpecStore == InitCoordinator /\ [][NextStore]_vars

\* the coordinator from setup to unload, with manual fetches and options updates
NextCoordinator ==
    \/ Start
    \/ \E kind \in ManualKinds : FetchStart(kind)
    \/ FetchReturned
    \/ ServiceReturned
    \/ ServicePublish
    \/ FetchFailed
    \/ \E held \in BOOLEAN : DailyTimerFires(held)
    \/ \E held \in BOOLEAN : RetryTimerFires(held)
    \/ \E min_hours \in 0..MaxConfigHours, max_hours \in 0..MaxConfigHours :
          UpdateOptions(min_hours, max_hours)
    \/ \E unload_ok \in BOOLEAN : Unload(unload_ok)

SpecCoordinator == InitCoordinator /\ [][NextCoordinator]_vars

---------------------------------------------------------------------------
(* Claims about the window search and the top-K ranking (SpecFn) *)

\* The valid records of a list in ascending deliveryStart order, equal starts in input
\* order, stated by rank and not by the sort above.
ValidIndices(S) == {i \in 1..Len(S) : IsValid(S[i])}

RankOf(S, i) ==
    1 + Cardinality({j \in ValidIndices(S) :
          \/ Val(S[j].deliveryStart) < Val(S[i].deliveryStart)
          \/ (Val(S[j].deliveryStart) = Val(S[i].deliveryStart) /\ j < i)})

SortedValid(S) ==
    [r \in 1..Cardinality(ValidIndices(S)) |->
        S[CHOOSE i \in ValidIndices(S) : RankOf(S, i) = r]]

\* the run of W consecutive entries of the sorted valid records at offset i (0-based)
Run(S, W, i) == SubSeq(SortedValid(S), i + 1, i + W)

Offsets(S, W) == 0..(Cardinality(ValidIndices(S)) - W)

IsSearch == call.op \in {"find_cheapest_time_window", "find_most_expensive_time_window"}

IsRanking == call.op \in {"find_multiple_cheap_windows", "find_multiple_expensive_windows"}

\* C1: with W >= 1 and at least W valid records, find_cheapest_time_window returns
\* found=true and the unrounded average of the returned window is <= the average of
\* every run of W consecutive entries of the valid records sorted by deliveryStart.
C1_CheapestIsMinimal ==
    (/\ call.op = "find_cheapest_time_window"
     /\ call.window_hours >= 1
     /\ Cardinality(ValidIndices(series)) >= call.window_hours)
    => /\ ~result.raised
       /\ result.found
       /\ \A i \in Offsets(series, call.window_hours) :
            AvgLeq(Avg(Prices(result.records)),
                   Avg(Prices(Run(series, call.window_hours, i))))

\* a cheapest search with several runs, the returned one strictly cheaper than the first
C1_Witness ==
    /\ call.op = "find_cheapest_time_window"
    /\ call.window_hours >= 1
    /\ Cardinality(ValidIndices(series)) > call.window_hours
    /\ result.found
    /\ AvgLess(Avg(Prices(result.records)), Avg(Prices(Run(series, call.window_hours, 0))))

\* C2: with W >= 1 and at least W valid records, find_most_expensive_time_window
\* returns found=true and the unrounded average of the returned window is >= the
\* average of every run of W consecutive entries of the sorted valid records.
C2_MostExpensiveIsMaximal ==
    (/\ call.op = "find_most_expensive_time_window"
     /\ call.window_hours >= 1
     /\ Cardinality(ValidIndices(series)) >= call.window_hours)
    => /\ ~result.raised
       /\ result.found
       /\ \A i \in Offsets(series, call.window_hours) :
            AvgLeq(Avg(Prices(Run(series, call.window_hours, i))),
                   Avg(Prices(result.records)))

\* a most expensive search with several runs, the returned one strictly dearer than
\* the first
C2_Witness ==
    /\ call.op = "find_most_expensive_time_window"
    /\ call.window_hours >= 1
    /\ Cardinality(ValidIndices(series)) > call.window_hours
    /\ result.found
    /\ AvgLess(Avg(Prices(Run(series, call.window_hours, 0))), Avg(Prices(result.records)))

\* C3: a window search called with window_hours < 1 returns found=false; it neither
\* raises nor returns found=true.
C3_NonPositiveWindowNotFound ==
    (IsSearch /\ call.window_hours < 1) => (~result.raised /\ ~result.found)

\* C4: for both directions, when the list is empty or has fewer valid records than
\* window_hours, the search returns found=false with a message and does not raise.
C4_InsufficientDataNotFound ==
    (/\ IsSearch
     /\ (series = <<>> \/ Cardinality(ValidIndices(series)) < call.window_hours))
    => /\ ~result.raised
       /\ ~result.found
       /\ result.message \in {"Not enough data", "Not enough valid data"}

\* a search over a non-empty list whose valid records are too few, and one over the
\* empty list with a non-positive window length
C4_Witness ==
    /\ IsSearch
    /\ ~result.found
    /\ \/ /\ series # <<>>
          /\ Len(series) >= call.window_hours
          /\ Cardinality(ValidIndices(series)) < call.window_hours
       \/ /\ series = <<>>
          /\ call.window_hours < 1

\* C5: the top-K functions called with count <= 0 return an empty list, and they
\* return an empty list when there is no data (stated for window_hours >= 1).
C5_NonPositiveCountEmpty ==
    (/\ IsRanking
     /\ call.window_hours >= 1
     /\ (call.count <= 0 \/ series = <<>>))
    => (~result.raised /\ result.windows = <<>>)

---------------------------------------------------------------------------
(* Claims about the detectors (Spec) *)

\* a timestamp string that parses
WellFormed(t) == t \in 0..MaxTick

\* a timestamp string that is not empty
Present(t) == t # EmptyStr

\* the last recompute looked up a window with found=true
EvaluatedFound == last.done /\ last.path \in {"no_bounds", "parse_failed", "compared"}

\* the records of S whose deliveryStart falls on the local calendar date d
OnDate(S, d) ==
    SelectSeq(S, LAMBDA r : /\ ~IsNone(r.deliveryStart)
                            /\ WellFormed(Val(r.deliveryStart))
                            /\ DateOf(ToLocal(Val(r.deliveryStart))) = d)

\* the window length the followed detector searches with
DetectorHours == IF detector.direction = "cheapest" THEN min_window_hours
                 ELSE max_window_hours

\* C6: after a recompute with a found window (whose bounds parse) the detector is
\* ACTIVE exactly when start_local <= now < end_local, now being the clock reading the
\* recompute compared with.
C6_ActiveIffInsideWindow ==
    (EvaluatedFound /\ WellFormed(last.start_time) /\ WellFormed(last.end_time))
    => (det_state <=> /\ ToLocal(last.start_time) <= last.now
                      /\ last.now < ToLocal(last.end_time))

\* a recompute at now = end of the window switched an ACTIVE detector off
C6_Witness ==
    /\ EvaluatedFound
    /\ WellFormed(last.start_time)
    /\ last.now = ToLocal(last.end_time)
    /\ last.was
    /\ ~det_state

\* a step of one of the three triggers
TriggerStep ==
    \/ HourlyUpdate
    \/ HandleDataUpdate
    \/ \E e \in {"okte_force_update", "okte_detectors_update"} : HandleForceUpdate(e)

\* a recompute that reads the store, the window length and the clock the state was
\* last computed from
SameInputs == last.done /\ last.date = TargetDate(detector, now) /\ now' = now

\* C7: the detector state changes only in a step of one of the three triggers (hourly
\* tick, data-refresh event, force-refresh signal), and a recompute with unchanged
\* window and unchanged time leaves the state unchanged.
C7_OnlyThreeTriggers ==
    [][/\ (det_state' # det_state => TriggerStep)
       /\ ((TriggerStep /\ SameInputs) => det_state' = det_state)]_vars

\* C7 amended: the detector state changes only in a step of one of the three triggers
\* or in the initial recompute of async_added_to_hass, and any of these recomputes with
\* unchanged window and unchanged time leaves the state unchanged.
C7_OnlyRecomputes ==
    [][/\ (det_state' # det_state => (TriggerStep \/ AddedToHass))
       /\ (((TriggerStep \/ AddedToHass) /\ SameInputs) => det_state' = det_state)]_vars

\* the initial recompute switched the detector on
C7_Witness ==
    /\ last.done
    /\ last.trigger = "added"
    /\ ~last.was
    /\ det_state

\* C8: whatever fetch or recalculation is in flight, the start and the end of the
\* window a recompute evaluates are the start of the first record and the end of the
\* last record of one run of consecutive records of the stored series of the
\* detector's day.
C8_WindowFromOneSearch ==
    EvaluatedFound
    => \E i \in Offsets(OnDate(data, last.date), DetectorHours) :
          LET run == Run(OnDate(data, last.date), DetectorHours, i)
          IN  /\ last.start_time = Val(run[1].deliveryStart)
              /\ last.end_time = Val(run[DetectorHours].deliveryEnd)

\* a recompute while recalculated windows wait to be stored, the cached window of the
\* detector's direction ending elsewhere than the window evaluated
C8_Witness ==
    /\ EvaluatedFound
    /\ recalc.pc = "computed"
    /\ LET cached == IF detector.direction = "cheapest" THEN cheapest_window
                     ELSE most_expensive_window
       IN  /\ ~IsNone(cached)
           /\ Val(cached).found
           /\ Val(cached).end_time # last.end_time

\* C9: a recompute returns normally, and when the window lookup raised or a bound of
\* the window does not parse the state is INACTIVE.
C9_FailureEndsInactive ==
    last.done
    => /\ ~last.escaped
       /\ (\/ last.path = "lookup_failed"
           \/ /\ EvaluatedFound
              /\ Present(last.start_time)
              /\ Present(last.end_time)
              /\ ~(WellFormed(last.start_time) /\ WellFormed(last.end_time)))
          => ~det_state

\* a recompute over a window whose end does not parse switched an ACTIVE detector off
C9_Witness ==
    /\ EvaluatedFound
    /\ Present(last.end_time)
    /\ ~WellFormed(last.end_time)
    /\ last.was
    /\ ~det_state

\* C10: after a recompute whose window has found=false, or has an empty start or end,
\* the state is INACTIVE.
C10_NoWindowEndsInactive ==
    (\/ last.done /\ last.path = "not_found"
     \/ EvaluatedFound /\ ~(Present(last.start_time) /\ Present(last.end_time)))
    => ~det_state

\* a recompute over a found window without an end switched an ACTIVE detector off
C10_Witness ==
    /\ EvaluatedFound
    /\ ~Present(last.end_time)
    /\ last.was
    /\ ~det_state

\* a step in which okte_data_updated is fired, none being pending before
DataEventFired ==
    "okte_data_updated" \notin pending /\ "okte_data_updated" \in pending'

\* C11: in the step in which a fetch or a recalculation fires okte_data_updated the
\* store already holds the fetched series with the windows computed from it (or the
\* recalculated windows), and the recompute the event triggers searches the series the
\* store holds at delivery.
C11_StoredBeforeEvent ==
    [][/\ (DataEventFired /\ fetch.pc # "idle" /\ fetch'.pc = "idle")
          => /\ data' \in Upstream
             /\ cheapest_window' = Some(find_cheapest_time_window(data', fetch.min_hours))
             /\ most_expensive_window'
                  = Some(find_most_expensive_time_window(data', fetch.max_hours))
       /\ (DataEventFired /\ recalc.pc = "computed" /\ recalc'.pc = "idle")
          => /\ data' # <<>>
             /\ cheapest_window' = Some(recalc.cheapest)
             /\ most_expensive_window' = Some(recalc.most_expensive)
       /\ (HandleDataUpdate /\ last'.path \in {"no_bounds", "parse_failed", "compared"})
          => \E i \in Offsets(OnDate(data, last'.date), DetectorHours) :
                LET run == Run(OnDate(data, last'.date), DetectorHours, i)
                IN  /\ last'.start_time = Val(run[1].deliveryStart)
                    /\ last'.end_time = Val(run[DetectorHours].deliveryEnd)]_vars

\* the recompute triggered by a data-refresh event found the detector inside the window
\* of the series just stored
C11_Witness ==
    /\ last.done
    /\ last.trigger = "data"
    /\ last.path = "compared"
    /\ ~last.was
    /\ det_state

---------------------------------------------------------------------------
(* Claims about the window-length services (SpecRecalc) *)

\* C12: a window-length change through set_cheapest_window_hours or
\* set_most_expensive_window_hours with a valid value leaves a recalculation on its way
\* that fires the force-refresh signals, so that the detector recomputes with the new
\* length before the next hourly tick.
C12_ChangeSignalsDetectors ==
    [][(\E d \in {"cheapest", "most_expensive"}, w \in 1..MaxWindowHours :
            SetWindowHours(d, w))
       => recalc'.pc = "computed"]_vars

---------------------------------------------------------------------------
(* Claims about the hourly tick (Spec) *)

\* the window the followed detector finds in the store as it is, on the date of now
CurrentWindow == GetWindow(detector, data, DetectorHours, now)

\* now lies in the current window, start included and end excluded
InsideCurrentWindow ==
    /\ ~CurrentWindow.raised
    /\ CurrentWindow.found
    /\ WellFormed(CurrentWindow.start_time)
    /\ WellFormed(CurrentWindow.end_time)
    /\ ToLocal(CurrentWindow.start_time) <= now
    /\ now < ToLocal(CurrentWindow.end_time)

\* C13: right after the recompute of the hourly tick, which waits for no event and no
\* data refresh, the detector is ACTIVE exactly when now lies in the window of the
\* current data.
C13_HourlyStateIsMembership ==
    (last.done /\ last.trigger = "hourly") => (det_state <=> InsideCurrentWindow)

\* with no event pending, the hourly recompute at the end of the window switched an
\* ACTIVE detector off
C13_Witness ==
    /\ last.done
    /\ last.trigger = "hourly"
    /\ last.path = "compared"
    /\ pending = {}
    /\ now % HourTicks = 0
    /\ last.was
    /\ ~det_state

---------------------------------------------------------------------------
(* Claims about the top-K ranking (SpecFn) *)

IsPrefix(a, b) == Len(a) <= Len(b) /\ SubSeq(b, 1, Len(a)) = a

\* the ranking function last called, applied to the same list and window length with
\* another count
RankingWith(count) ==
    IF call.op = "find_multiple_cheap_windows"
    THEN find_multiple_cheap_windows(series, call.window_hours, count)
    ELSE find_multiple_expensive_windows(series, call.window_hours, count)

\* C14: for k >= 0 the list a top-K function returns for k is a prefix, in the same
\* order, of the list it returns for k + 1 (and it raises for k exactly when it raises
\* for k + 1).
C14_PrefixOfNextCount ==
    (IsRanking /\ call.count >= 0)
    => /\ result.raised = RankingWith(call.count + 1).raised
       /\ ~result.raised => IsPrefix(result.windows, RankingWith(call.count + 1).windows)

\* a ranking that returned k >= 1 windows where k + 1 returns one more
C14_Witness ==
    /\ IsRanking
    /\ call.count >= 1
    /\ ~result.raised
    /\ Len(result.windows) = call.count
    /\ Len(RankingWith(call.count + 1).windows) = call.count + 1
    /\ result.windows[1].avg_price # RankingWith(call.count + 1).windows[call.count + 1].avg_price

\* C15: with n valid records, 1 <= W <= n and count k >= 1, a top-K function returns
\* exactly min(k, n - W + 1) windows.
C15_CountOfWindows ==
    (/\ IsRanking
     /\ call.window_hours >= 1
     /\ call.count >= 1
     /\ Cardinality(ValidIndices(series)) >= call.window_hours)
    => /\ ~result.raised
       /\ Len(result.windows)
            = Min2(call.count, Cardinality(ValidIndices(series)) - call.window_hours + 1)

\* two overlapping windows returned
C15_Witness ==
    /\ IsRanking
    /\ call.window_hours >= 2
    /\ call.count >= 2
    /\ ~result.raised
    /\ Len(result.windows) = 2
    /\ Cardinality(ValidIndices(series)) = call.window_hours + 1

\* C16: the list a top-K function returns is ordered by avg_price, non-decreasing for
\* the cheap windows and non-increasing for the expensive ones, and two returned
\* windows with equal avg_price appear in ascending order of start_time in both
\* directions.
C16_OrderedByAverage ==
    (IsRanking /\ ~result.raised)
    => \A i \in 1..Len(result.windows), j \in 1..Len(result.windows) :
          i < j
          => /\ IF call.op = "find_multiple_cheap_windows"
                THEN result.windows[i].avg_price <= result.windows[j].avg_price
                ELSE result.windows[i].avg_price >= result.windows[j].avg_price
             /\ result.windows[i].avg_price = result.windows[j].avg_price
                => result.windows[i].start_time <= result.windows[j].start_time

\* two expensive windows returned with equal avg_price and different starts, out of
\* three candidates
C16_Witness ==
    /\ call.op = "find_multiple_expensive_windows"
    /\ ~result.raised
    /\ Cardinality(ValidIndices(series)) = call.window_hours + 2
    /\ Len(result.windows) = 2
    /\ result.windows[1].avg_price = result.windows[2].avg_price
    /\ result.windows[1].start_time < result.windows[2].start_time

---------------------------------------------------------------------------
(* Further claims about the window search (SpecFn) *)

\* the window at offset i of the list searched has strictly the better average than
\* the window at offset j, for the search last called
StrictlyBetter(i, j) ==
    LET a == Avg(Prices(Run(series, call.window_hours, i)))
        b == Avg(Prices(Run(series, call.window_hours, j)))
    IN  IF call.op = "find_cheapest_time_window" THEN AvgLess(a, b) ELSE AvgLess(b, a)

\* no two valid records of the list differ in price
AllPricesEqual ==
    \A i \in ValidIndices(series), j \in ValidIndices(series) :
        series[i].price = series[j].price

\* two results name the same window: same bounds, same records
SameWindow(a, b) ==
    /\ a.found
    /\ b.found
    /\ a.start_time = b.start_time
    /\ a.end_time = b.end_time
    /\ a.records = b.records

---------------------------------------------------------------------------
(* Claims about the price statistics (SpecFn) *)

IsStatistics == call.op = "calculate_price_statistics"

\* the positions of the list that carry a price
PricedIndices(S) == {i \in 1..Len(S) : ~IsNone(S[i].price)}

\* C18: calculate_price_statistics, applied to an empty list or to a list in which
\* every price is absent, does not raise and returns count = 0 with min_price,
\* max_price, avg_price, min_record and max_record all None.
C18_NothingPricedGivesEmptyStatistics ==
    (IsStatistics /\ PricedIndices(series) = {})
    => /\ ~result.raised
       /\ result.count = 0
       /\ IsNone(result.min_price)
       /\ IsNone(result.max_price)
       /\ IsNone(result.avg_price)
       /\ IsNone(result.min_record)
       /\ IsNone(result.max_record)

\* the statistics of a non-empty list without any price
C18_Witness ==
    /\ IsStatistics
    /\ Len(series) >= 2
    /\ PricedIndices(series) = {}
    /\ ~result.raised
    /\ result.count = 0

\* C19: for a list with at least one priced record, count is the number of records
\* with a price, min_price and max_price are the least and the greatest of those
\* prices, and min_record / max_record are the record at the first position of the
\* list whose price is min_price / max_price.
C19_StatisticsOfPricedRecords ==
    (IsStatistics /\ PricedIndices(series) # {})
    => LET priced == PricedIndices(series)
           lo == CHOOSE i \in priced :
                     /\ \A j \in priced : Val(series[i].price) <= Val(series[j].price)
                     /\ \A j \in priced :
                            series[j].price = series[i].price => i <= j
           hi == CHOOSE i \in priced :
                     /\ \A j \in priced : Val(series[i].price) >= Val(series[j].price)
                     /\ \A j \in priced :
                            series[j].price = series[i].price => i <= j
       IN  /\ ~result.raised
           /\ result.count = Cardinality(priced)
           /\ result.min_price = series[lo].price
           /\ result.max_price = series[hi].price
           /\ result.min_record = Some(series[lo])
           /\ result.max_record = Some(series[hi])

\* the least price is carried by two different records of a list that also holds a
\* record without price
C19_Witness ==
    /\ IsStatistics
    /\ ~result.raised
    /\ result.count = 2
    /\ Len(series) = 3
    /\ \E i \in 1..Len(series), j \in 1..Len(series) :
          /\ i < j
          /\ series[i].price = result.min_price
          /\ series[j].price = result.min_price
          /\ series[i] # series[j]
          /\ result.min_record = Some(series[i])

---------------------------------------------------------------------------
(* Claim about the date filter (SpecFilter) *)

IsFilter == call.op = "_filter_data_by_date"

\* the sub-series of the drawn list for a date; for the date asked it is the list
\* the call returned
SubSeries(d) ==
    IF d = call.target_date THEN result.filtered_data ELSE FilterByDate(series, d)

\* how many positions of a list hold the record r
Occurrences(S, r) == Cardinality({i \in 1..Len(S) : S[i] = r})

\* deliveryStart is present and is a timestamp
Parseable(record) ==
    /\ ~IsNone(record.deliveryStart)
    /\ Val(record.deliveryStart) \in 0..MaxTick

\* C20: with the time zone fixed, the date filter does not raise, a record whose
\* deliveryStart is present and parseable is in the sub-series of exactly one calendar
\* date, as often as it is in the input, and a record whose deliveryStart is missing
\* or unparseable is in no sub-series: the sub-series of two dates share no record
\* and their union is the parseable part of the input.
C20_DatesPartitionParseable ==
    IsFilter
    => /\ ~result.raised
       /\ \A i \in 1..Len(series) :
             LET r == series[i] IN
             IF Parseable(r)
             THEN \E d \in FilterDates :
                     /\ Occurrences(SubSeries(d), r) = Occurrences(series, r)
                     /\ \A e \in FilterDates \ {d} : Occurrences(SubSeries(e), r) = 0
             ELSE \A d \in FilterDates : Occurrences(SubSeries(d), r) = 0
       /\ \A d \in FilterDates :
             \A k \in 1..Len(SubSeries(d)) : Occurrences(series, SubSeries(d)[k]) > 0

\* a list with a record without timestamp and records on two dates, filtered for the
\* later of the two dates
C20_Witness ==
    /\ IsFilter
    /\ Len(series) = 3
    /\ Len(result.filtered_data) = 1
    /\ \E i \in 1..Len(series) : ~Parseable(series[i])
    /\ \E d \in FilterDates : d < call.target_date /\ Len(SubSeries(d)) = 1

---------------------------------------------------------------------------
(* Claims about the functions as a whole (SpecFn) *)

\* C21: a call of the statistics, of a window search, of a top-K ranking or of the
\* date filter leaves the caller's list as it was: the same records, in the same
\* order, with the same field values.
C21_InputUnchanged == [][call'.op # "none" => series' = series]_vars

\* a search or ranking that got past its guards, and so sorted, on a list that is
\* not in the order of delivery start and holds a record that is not valid
C21_Witness ==
    /\ (IsSearch \/ IsRanking)
    /\ call.window_hours >= 1
    /\ Cardinality(ValidIndices(series)) >= call.window_hours
    /\ Cardinality(ValidIndices(series)) < Len(series)
    /\ \E i \in ValidIndices(series), j \in ValidIndices(series) :
          i < j /\ Val(series[i].deliveryStart) > Val(series[j].deliveryStart)

\* a record that carries a price, a delivery start and a delivery end
HasPriceStartEnd(record) ==
    /\ ~IsNone(record.price)
    /\ ~IsNone(record.deliveryStart)
    /\ ~IsNone(record.deliveryEnd)

\* C22: when at least window_hours records of the list carry a price, a delivery
\* start and a delivery end, a window search does not raise and returns found = true,
\* and every record of the returned window carries a price, a start and an end.
C22_MalformedRecordsSkipped ==
    (/\ IsSearch
     /\ Cardinality({i \in 1..Len(series) : HasPriceStartEnd(series[i])})
            >= call.window_hours)
    => /\ ~result.raised
       /\ result.found
       /\ \A k \in 1..Len(result.records) : HasPriceStartEnd(result.records[k])

SearchFor(op, records, window_hours) ==
    IF op = "find_multiple_cheap_windows"
    THEN find_cheapest_time_window(records, window_hours)
    ELSE find_most_expensive_time_window(records, window_hours)

\* C30: with W >= 1 and at least W valid records, the first window of
\* find_multiple_cheap_windows(S, W, 1) has the start and the end of the window of
\* find_cheapest_time_window(S, W), and the first window of
\* find_multiple_expensive_windows(S, W, 1) those of the window of
\* find_most_expensive_time_window(S, W).
C30_RankerAgreesWithSearch ==
    (/\ IsRanking
     /\ call.count = 1
     /\ call.window_hours >= 1
     /\ Cardinality(ValidIndices(series)) >= call.window_hours)
    => LET single == SearchFor(call.op, series, call.window_hours)
       IN  /\ ~result.raised
           /\ single.found
           /\ Len(result.windows) = 1
           /\ result.windows[1].start_time = single.start_time
           /\ result.windows[1].end_time = single.end_time

---------------------------------------------------------------------------
(* Further claim about the detectors (Spec) *)

\* the last recompute compared with a clock reading of the calendar day on which it
\* had read the date for the filter: the clock was read once, or twice within one day
OneDayRecompute == last.done /\ DateOf(last.now) + detector.day = last.date

\* C29: a "tomorrow" detector is INACTIVE after every recompute in which the clock is
\* read once (the date for the filter and the time compared are one reading, or two
\* readings of the same calendar day).
C29_TomorrowDetectorInactive ==
    (detector.day = 1 /\ OneDayRecompute) => ~det_state

\* a "tomorrow" detector recomputed in the last tick of the day, with a window found
\* among tomorrow's records
C29_Witness ==
    /\ detector.day = 1
    /\ OneDayRecompute
    /\ last.path = "compared"
    /\ last.now = DayTicks - 1
    /\ ToLocal(last.start_time) = DayTicks
    /\ ~det_state

---------------------------------------------------------------------------
(* Claims about the coordinator, the fetches and the store *)

AtRest == fetch.pc = "idle" /\ recalc.pc = "idle"

\* C24: whenever no fetch and no recalculation is in flight, the cached windows are
\* the window searches over the cached data with the configured window lengths
\* (SpecStore: automatic fetches, manual fetches and the window-length services).
C24_CachedWindowsMatchConfiguration ==
    (AtRest /\ data # <<>>) =>
        /\ cheapest_window = Some(find_cheapest_time_window(data, min_window_hours))
        /\ most_expensive_window
             = Some(find_most_expensive_time_window(data, max_window_hours))

\* a fetch ends and leaves connection_status False: it returned no records or raised
FetchEndsFailed == fetch.pc # "idle" /\ fetch'.pc = "idle" /\ ~connection_status'

\* C25: a fetch that returns no records or raises leaves data, statistics, both
\* windows and last_update as they were and fires no event (SpecCoordinator).
C25_FailedFetchLeavesStore ==
    [][FetchEndsFailed =>
          /\ data' = data
          /\ statistics' = statistics
          /\ cheapest_window' = cheapest_window
          /\ most_expensive_window' = most_expensive_window
          /\ last_update' = last_update
          /\ pending' = pending]_vars

\* C26: at most one daily-fetch timer is pending at any moment (SpecCoordinator).
C26_OneDailyTimer == timers.daily <= 1

\* C27: once async_stop has returned for the unload, no daily-fetch timer and no
\* retry timer is pending (SpecCoordinator).
C27_NoTimerAfterStop == lifecycle \in {"stopped", "unloaded"} => timers = NoTimers

\* an automatic fetch of the running coordinator ends with the response stored
AutomaticFetchStored ==
    /\ lifecycle \in {"starting", "running"}
    /\ fetch.pc = "fetching"
    /\ fetch.kind \in CoordinatorKinds
    /\ fetch'.pc = "idle"
    /\ connection_status'

\* C28: when an automatic fetch of the running coordinator has stored its response,
\* no retry timer is pending (SpecCoordinator).
C28_SuccessLeavesNoRetry == [][AutomaticFetchStored => timers'.retry = 0]_vars

=============================================================================
